---- MODULE Spec2Model ----
(***************************************************************************)
(* Model of the PPP financial calculation engine (financial_engine.py,     *)
(* config.py).  Floating point values are modelled as exact rationals      *)
(* [n |-> numerator, d |-> denominator > 0] in lowest terms; rounding of   *)
(* IEEE doubles is not modelled.                                           *)
(***************************************************************************)
EXTENDS Integers, Sequences, FiniteSets, TLC

VARIABLES
    params,          \* content of the dict self.params refers to
    scenario,        \* self.scenario
    scenario_adj,    \* self.scenario_adj
    adj_params,      \* adj_params of the engine's last calculate_project_cashflow
    ret,             \* the value returned by the last call on the engine
    first_calc,      \* the value returned by the first calculate_project_cashflow
    ebt,             \* tax pass: the EBT column of df
    tax_rate,        \* tax pass: argument tax_rate
    i,               \* tax pass: number of loop iterations done
    cumulative_loss, \* tax pass: accumulator
    taxable_income,  \* tax pass: output array
    tax,             \* tax pass: output array
    loss_used        \* tax pass: loss_to_use of each iteration done

engine_vars == <<params, scenario, scenario_adj, adj_params, ret, first_calc>>
tax_vars == <<ebt, tax_rate, i, cumulative_loss, taxable_income, tax, loss_used>>
vars == <<params, scenario, scenario_adj, adj_params, ret, first_calc,
          ebt, tax_rate, i, cumulative_loss, taxable_income, tax, loss_used>>

None == "None"

-----------------------------------------------------------------------------
(* Exact rational arithmetic standing for Python/numpy float arithmetic.   *)

Abs(x) == IF x < 0 THEN -x ELSE x

RECURSIVE GCD(_, _)
GCD(a, b) == IF b = 0 THEN a ELSE GCD(b, a % b)

Norm(n, d) ==
    LET g == GCD(Abs(n), d)
    IN  [n |-> n \div g, d |-> d \div g]

R(k) == [n |-> k, d |-> 1]
Frac(n, d) == Norm(n, d)

RNeg(a) == [n |-> -a.n, d |-> a.d]
RAdd(a, b) ==
    LET g == GCD(a.d, b.d)
    IN  Norm(a.n * (b.d \div g) + b.n * (a.d \div g), (a.d \div g) * b.d)
RSub(a, b) == RAdd(a, RNeg(b))
RMul(a, b) ==
    LET g1 == GCD(Abs(a.n), b.d)
        g2 == GCD(Abs(b.n), a.d)
    IN  Norm((a.n \div g1) * (b.n \div g2), (a.d \div g2) * (b.d \div g1))
RDiv(a, b) ==
    IF b.n > 0 THEN RMul(a, [n |-> b.d, d |-> b.n])
               ELSE RMul(a, [n |-> -b.d, d |-> -b.n])
\* an/ad < bn/bd for ad, bd > 0, by integer parts and then the remainders
\* (no product is formed, so no machine integer overflows).
RECURSIVE FracLess(_, _, _, _)
FracLess(an, ad, bn, bd) ==
    LET qa == an \div ad
        qb == bn \div bd
        ra == an - qa * ad
        rb == bn - qb * bd
    IN  IF qa # qb THEN qa < qb
        ELSE IF rb = 0 THEN FALSE
        ELSE IF ra = 0 THEN TRUE
        ELSE FracLess(bd, rb, ad, ra)
RLt(a, b) == FracLess(a.n, a.d, b.n, b.d)
RLe(a, b) == ~RLt(b, a)
RMax(a, b) == IF RLt(a, b) THEN b ELSE a
RMin(a, b) == IF RLt(b, a) THEN b ELSE a
RAbs(a) == [n |-> Abs(a.n), d |-> a.d]
Zero == R(0)
One == R(1)

RECURSIVE RPow(_, _)
RPow(a, k) == IF k = 0 THEN One ELSE RMul(a, RPow(a, k - 1))

RECURSIVE RSum(_)
RSum(s) == IF s = <<>> THEN Zero ELSE RAdd(s[1], RSum(Tail(s)))

-----------------------------------------------------------------------------
(* Tax calculation with loss carryforward: the body of the loop.           *)

LossToUseMax(cl, e) == RMax(cl, RMax(Zero, RNeg(e)))
LossToUse(cl, e) == RMin(cl, RMax(Zero, RNeg(e)))

Taxable(e, loss_to_use) == RMax(Zero, RAdd(e, loss_to_use))

TaxOf(taxable, rate) == RMax(Zero, RMul(taxable, rate))

CumulativeLossNoAbs(cl, e, loss_to_use) ==
    IF RLt(e, Zero) THEN RAdd(cl, e) ELSE RSub(cl, loss_to_use)
CumulativeLossNext(cl, e, loss_to_use) ==
    IF RLt(e, Zero) THEN RAdd(cl, RAbs(e)) ELSE RSub(cl, loss_to_use)

Zeros(n) == [k \in 1..n |-> Zero] \o <<>>

(* The whole pass: iterations k+1 .. Len(e) of the loop, then the return.  *)
RECURSIVE TaxLoop(_, _, _, _, _, _)
TaxLoop(e, rate, k, cl, ti, tx) ==
    IF k = Len(e)
    THEN [taxable_income |-> ti, tax |-> tx]
    ELSE LET y == k + 1
             loss_to_use == LossToUse(cl, e[y])
             taxable == Taxable(e[y], loss_to_use)
         IN  TaxLoop(e, rate, y, CumulativeLossNext(cl, e[y], loss_to_use),
                     [ti EXCEPT ![y] = taxable],
                     [tx EXCEPT ![y] = TaxOf(taxable, rate)])

calculate_tax_with_loss_carryforward(e, rate) ==
    TaxLoop(e, rate, 0, Zero, Zeros(Len(e)), Zeros(Len(e)))

-----------------------------------------------------------------------------
(* config.py: the scenario registry and its lookup in __init__.            *)

SCENARIO_ADJUSTMENTS ==
    [x \in {"Base Case", "Downside", "Upside"} |->
        CASE x = "Base Case" ->
                [capex_adj |-> Zero, revenue_adj |-> Zero,
                 opex_adj |-> Zero, debt_rate_adj |-> Zero]
          [] x = "Downside" ->
                [capex_adj |-> Frac(1, 10), revenue_adj |-> Frac(-15, 100),
                 opex_adj |-> Frac(5, 100), debt_rate_adj |-> Frac(1, 100)]
          [] x = "Upside" ->
                [capex_adj |-> Frac(-5, 100), revenue_adj |-> Frac(1, 10),
                 opex_adj |-> Frac(-5, 100), debt_rate_adj |-> Frac(-5, 1000)]]

ScenarioAdjWrongDefault(name) ==
    IF name \in DOMAIN SCENARIO_ADJUSTMENTS
    THEN SCENARIO_ADJUSTMENTS[name]
    ELSE SCENARIO_ADJUSTMENTS["Downside"]
ScenarioAdj(name) ==
    IF name \in DOMAIN SCENARIO_ADJUSTMENTS
    THEN SCENARIO_ADJUSTMENTS[name]
    ELSE SCENARIO_ADJUSTMENTS["Base Case"]

-----------------------------------------------------------------------------
(* Dicts live in a heap (a sequence of dict contents); a reference is an   *)
(* index into it.  Within one call the heap is threaded through the        *)
(* operators, so that aliasing and in-place updates are explicit.          *)

DictCopyAlias(h, r) == [heap |-> h, ref |-> r]
DictCopy(h, r) == [heap |-> Append(h, h[r]), ref |-> Len(h) + 1]

apply_scenario_adjustments(h, self_params, adj) ==
    LET c == DictCopy(h, self_params)
        a == c.ref
        h1 == [c.heap EXCEPT ![a].total_investment = RMul(@, RAdd(One, adj.capex_adj))]
        h2 == [h1 EXCEPT ![a].initial_revenue = RMul(@, RAdd(One, adj.revenue_adj))]
        h3 == [h2 EXCEPT ![a].op_cost_ratio = RMul(@, RAdd(One, adj.opex_adj))]
        h4 == [h3 EXCEPT ![a].debt_rate = RMul(@, RAdd(One, adj.debt_rate_adj))]
    IN  [heap |-> h4, ref |-> a]

-----------------------------------------------------------------------------
(* calculate_project_cashflow: the columns of df, one value per year y.    *)

Inf == [n |-> 1, d |-> 0]        \* np.inf
NoneR == [n |-> 0, d |-> 0]      \* None in a numeric field

Years(p) == 1..p.project_period

\* A function over 1..n as a tuple.
AsSeq(f) == f \o <<>>

Revenue(p, y) ==
    RMul(p.initial_revenue, RPow(RAdd(One, p.revenue_growth), y - 1))
OpCost(p, revenue, y) ==
    RMul(RMul(revenue, p.op_cost_ratio), RPow(RAdd(One, p.inflation), y - 1))
EBITDA(revenue, opcost) == RSub(revenue, opcost)

annual_depreciation(p) == RDiv(p.total_investment, R(p.depreciation_period))
Depreciation(p, y) ==
    IF y <= p.depreciation_period THEN annual_depreciation(p) ELSE Zero
EBIT(ebitda, depreciation) == RSub(ebitda, depreciation)

debt_investment(p) == RMul(p.total_investment, RSub(One, p.equity_ratio))
AnnualPrincipalOverDepreciation(p) ==
    RDiv(debt_investment(p), R(p.depreciation_period))
annual_principal(p) == RDiv(debt_investment(p), R(p.project_period))

DebtBalanceStartOffByOne(p, y) ==
    RMax(Zero, RSub(debt_investment(p), RMul(annual_principal(p), R(y))))
DebtBalanceStartAlt(p, y) ==
    RMax(Zero, RSub(debt_investment(p),
                    RDiv(RMul(debt_investment(p), R(p.project_period - y + 1)),
                         R(p.project_period))))
Debt_Balance_Start(p, y) ==
    RMax(Zero, RSub(debt_investment(p), RMul(annual_principal(p), R(y - 1))))
InterestOnInstallment(p, balance) == RMul(annual_principal(p), p.debt_rate)
Interest_Payment(p, balance) == RMul(balance, p.debt_rate)
Principal_Repayment(p, balance) ==
    IF RLt(Zero, balance) THEN annual_principal(p) ELSE Zero
Debt_Service(interest, principal) == RAdd(interest, principal)

EBT(ebit, interest) == RSub(ebit, interest)

CFAds(ebitda, tx) == RSub(ebitda, tx)

DSCRZeroFill(cfads, debt_service) ==
    IF RLt(Zero, debt_service) THEN RDiv(cfads, debt_service) ELSE Zero
DSCR(cfads, debt_service) ==
    IF RLt(Zero, debt_service) THEN RDiv(cfads, debt_service) ELSE Inf

\* The columns assigned before the tax pass (lines 43-62), by row.
RowBeforeTax(p, y) ==
    LET revenue == Revenue(p, y)
        opcost == OpCost(p, revenue, y)
        ebitda == EBITDA(revenue, opcost)
        depreciation == Depreciation(p, y)
        ebit == EBIT(ebitda, depreciation)
        balance == Debt_Balance_Start(p, y)
        interest == Interest_Payment(p, balance)
        principal == Principal_Repayment(p, balance)
    IN  [Revenue |-> revenue,
         OpCost |-> opcost,
         EBITDA |-> ebitda,
         Depreciation |-> depreciation,
         EBIT |-> ebit,
         Debt_Balance_Start |-> balance,
         Interest_Payment |-> interest,
         Principal_Repayment |-> principal,
         Debt_Service |-> Debt_Service(interest, principal),
         EBT |-> EBT(ebit, interest)]

\* The columns assigned from the tax pass on (lines 63-67), by row.
RowAfterTax(row, taxable, tx) ==
    LET cfads == CFAds(row.EBITDA, tx)
    IN  [Taxable_Income |-> taxable,
         Tax |-> tx,
         CFAds |-> cfads,
         DSCR |-> DSCR(cfads, row.Debt_Service)] @@ row

CashflowTable(p) ==
    LET WithTax(pre, t) ==
            AsSeq([y \in Years(p) |->
                      RowAfterTax(pre[y], t.taxable_income[y], t.tax[y])])
        WithRows(pre) ==
            WithTax(pre,
                    calculate_tax_with_loss_carryforward(
                        AsSeq([y \in Years(p) |-> pre[y].EBT]), p.tax_rate))
    IN  WithRows(AsSeq([y \in Years(p) |-> RowBeforeTax(p, y)]))

-----------------------------------------------------------------------------
(* _calculate_kpis                                                         *)

Column(df, name) == AsSeq([y \in 1..Len(df) |-> df[y][name]])

\* npf.npv(rate, values): values[k] discounted by (1 + rate)^k, k from 0.
npv(rate, values) ==
    RSum([k \in 1..Len(values) |-> RDiv(values[k], RPow(RAdd(One, rate), k - 1))])

\* npf.irr(values) is a function of values alone; it is kept as the
\* uninterpreted term irr(values), None included.
irr(values) == [irr_of |-> values]

RECURSIVE SeqMin(_)
SeqMin(s) == IF Len(s) = 1 THEN s[1] ELSE RMin(s[1], SeqMin(Tail(s)))
SeqMean(s) == RDiv(RSum(s), R(Len(s)))

CumSum(s) == AsSeq([k \in 1..Len(s) |-> RSum(SubSeq(s, 1, k))])

\* np.where(cumsum_cf >= 0)[0]: the 0-based positions, in increasing order.
WhereNonNeg(s) ==
    SelectSeq([k \in 1..Len(s) |-> k - 1], LAMBDA k : RLe(Zero, s[k + 1]))

FirstOrInf(payback_idx) ==
    IF Len(payback_idx) > 0 THEN R(payback_idx[1] + 1) ELSE Inf

PaybackPeriodWithOutlay(project_cf) == FirstOrInf(WhereNonNeg(CumSum(project_cf)))
PaybackPeriod(project_cf) == FirstOrInf(WhereNonNeg(CumSum(Tail(project_cf))))

NoneIfInf(x) == IF x # Inf THEN x ELSE NoneR

\* valid_dscr: the DSCR column without its infinite entries (line 124).
ValidDscr(dscr) == SelectSeq(dscr, LAMBDA x : x # Inf)

MinDscr(valid_dscr) == IF Len(valid_dscr) > 0 THEN SeqMin(valid_dscr) ELSE Inf

AvgDscrInfFallback(valid_dscr) ==
    IF Len(valid_dscr) > 0 THEN SeqMean(valid_dscr) ELSE Inf
AvgDscr(valid_dscr) == IF Len(valid_dscr) > 0 THEN SeqMean(valid_dscr) ELSE Zero

ProfitabilityIndex(pv_inflows, equity_investment) ==
    IF RLt(Zero, equity_investment)
    THEN RDiv(pv_inflows, equity_investment) ELSE Zero

calculate_kpis(df, p) ==
    LET Summary(project_npv, project_irr, min_dscr, avg_dscr, payback_period,
                profitability_index) ==
            [project_npv |-> project_npv,
             project_irr |-> project_irr,
             min_dscr |-> NoneIfInf(min_dscr),
             avg_dscr |-> avg_dscr,
             payback_period |-> NoneIfInf(payback_period),
             profitability_index |-> profitability_index,
             equity_npv |-> project_npv,
             debt_coverage |-> avg_dscr]
        PvInflows(cfads) ==
            RSum([k \in 1..Len(df) |->
                    RDiv(cfads[k], RPow(RAdd(One, p.discount_rate), k))])
        With(cfads, project_cf, valid_dscr) ==
            Summary(npv(p.discount_rate, project_cf),
                    irr(project_cf),
                    MinDscr(valid_dscr),
                    AvgDscr(valid_dscr),
                    PaybackPeriod(project_cf),
                    ProfitabilityIndex(PvInflows(cfads),
                                       RMul(p.total_investment, p.equity_ratio)))
        WithCFAds(cfads) ==
            With(cfads,
                 <<RNeg(p.total_investment)>> \o cfads,
                 ValidDscr(Column(df, "DSCR")))
    IN  WithCFAds(Column(df, "CFAds"))

\* calculate_project_cashflow on the engine (self_params, adj), in heap h.
\* annual_metrics is df by columns and is not kept apart from cashflow_df.
calculate_project_cashflow(h, self_params, adj) ==
    LET Return(heap, adjp, df) ==
            [heap |-> heap,
             adj_params |-> adjp,
             result |-> [cashflow_df |-> df, summary_kpis |-> calculate_kpis(df, adjp)]]
        Build(heap, adjp) == Return(heap, adjp, CashflowTable(adjp))
        OnCopy(a) == Build(a.heap, a.heap[a.ref])
    IN  OnCopy(apply_scenario_adjustments(h, self_params, adj))

-----------------------------------------------------------------------------
(* sensitivity_analysis and scenario_analysis                              *)

\* One sweep point: the body of the loop of sensitivity_analysis.
SensitivityPointBase(h, self_params, self_scenario, variable, value) ==
    LET Tagged(r) ==
            [heap |-> r.heap, kpis |-> (variable :> value) @@ r.result.summary_kpis]
        OnCopy(c) ==
            Tagged(calculate_project_cashflow([c.heap EXCEPT ![c.ref][variable] = value],
                                              c.ref, ScenarioAdj("Base Case")))
    IN  OnCopy(DictCopy(h, self_params))
SensitivityPoint(h, self_params, self_scenario, variable, value) ==
    LET Tagged(r) ==
            [heap |-> r.heap, kpis |-> (variable :> value) @@ r.result.summary_kpis]
        OnCopy(c) ==
            Tagged(calculate_project_cashflow([c.heap EXCEPT ![c.ref][variable] = value],
                                              c.ref, ScenarioAdj(self_scenario)))
    IN  OnCopy(DictCopy(h, self_params))

RECURSIVE SensitivityLoop(_, _, _, _, _, _, _)
SensitivityLoop(h, self_params, self_scenario, variable, values, k, results) ==
    IF k = Len(values)
    THEN [heap |-> h, table |-> results]
    ELSE LET Continue(pt) ==
                 SensitivityLoop(pt.heap, self_params, self_scenario, variable, values,
                                 k + 1, Append(results, pt.kpis))
         IN  Continue(SensitivityPoint(h, self_params, self_scenario, variable,
                                       values[k + 1]))

sensitivity_analysis(h, self_params, self_scenario, variable, values) ==
    SensitivityLoop(h, self_params, self_scenario, variable, values, 0, <<>>)

RECURSIVE ScenarioLoop(_, _, _, _, _)
ScenarioLoop(h, self_params, scenarios, k, scenario_results) ==
    IF k = Len(scenarios)
    THEN [heap |-> h, scenario_results |-> scenario_results]
    ELSE LET Continue(r) ==
                 ScenarioLoop(r.heap, self_params, scenarios, k + 1,
                              (scenarios[k + 1] :> r.result.summary_kpis)
                                  @@ scenario_results)
         IN  Continue(calculate_project_cashflow(h, self_params,
                                                 ScenarioAdj(scenarios[k + 1])))

scenario_analysis(h, self_params, scenarios) ==
    ScenarioLoop(h, self_params, scenarios, 0, <<>>)

-----------------------------------------------------------------------------
(* The engine as a state machine: one engine object, any sequence of calls *)

MaxPeriod == 3
MaxValues == 2
MaxScenarios == 2

ScenarioNames == {"Base Case", "Downside", "Upside", "Stress"}
SweepVariables == {"discount_rate", "debt_rate", "revenue_growth", "op_cost_ratio"}
SweepValues == {Zero, One}
ListedScenarios == {"Downside", "Upside"}

\* Inputs of the calculation alone.
ParamSets ==
    UNION {
      {[total_investment |-> R(1000),
        project_period |-> n,
        depreciation_period |-> dp,
        equity_ratio |-> er,
        debt_rate |-> dr,
        discount_rate |-> Frac(1, 4),
        tax_rate |-> tr,
        initial_revenue |-> R(1000),
        revenue_growth |-> g,
        op_cost_ratio |-> ocr,
        inflation |-> infl] :
          dp \in {1, n},
          er \in {Zero, Frac(1, 2), One},
          dr \in {Zero, Frac(1, 10)},
          tr \in {Zero, Frac(1, 5)},
          g \in {Frac(-1, 2), Frac(1, 2)},
          ocr \in {Frac(1, 2), One},
          infl \in {Frac(-1, 2), Zero, Frac(1, 2)}} :
      n \in 1..MaxPeriod}

\* The exact value of avg_dscr outgrows the model checker's machine integers
\* when a scenario-adjusted debt rate meets several years of debt service;
\* those inputs are left out.
InRange(p, s) ==
    \/ p.debt_rate = Zero
    \/ ScenarioAdj(s).debt_rate_adj = Zero
    \/ p.project_period = 1
    \/ (s = "Downside" /\ p.project_period = 2)

\* Inputs of the engine driven through sequences of calls.
EngineScenarios == {"Base Case", "Downside", "Upside", "Stress"}
EngineParamSets ==
    {[total_investment |-> R(1000),
      project_period |-> 2,
      depreciation_period |-> 2,
      equity_ratio |-> Frac(1, 2),
      debt_rate |-> Frac(1, 10),
      discount_rate |-> Frac(1, 4),
      tax_rate |-> Frac(1, 5),
      initial_revenue |-> R(1000),
      revenue_growth |-> Zero,
      op_cost_ratio |-> ocr,
      inflation |-> Zero] :
        ocr \in {Frac(1, 2)}}

SeqsFrom0(S, n) == UNION {[1..k -> S] : k \in 0..n}

NoRet == [op |-> "none", value |-> <<>>]

TaxIdle ==
    /\ ebt = <<>>
    /\ tax_rate = Zero
    /\ i = 0
    /\ cumulative_loss = Zero
    /\ taxable_income = <<>>
    /\ tax = <<>>
    /\ loss_used = <<>>

Init ==
    /\ params \in EngineParamSets
    /\ scenario \in EngineScenarios
    /\ scenario_adj = ScenarioAdj(scenario)
    /\ adj_params = <<>>
    /\ ret = NoRet
    /\ first_calc = <<>>
    /\ TaxIdle

Calculate ==
    /\ \E r \in {calculate_project_cashflow(<<params>>, 1, scenario_adj)} :
          /\ params' = r.heap[1]
          /\ adj_params' = <<r.adj_params>>
          /\ ret' = [op |-> "calculate", value |-> r.result]
          /\ first_calc' = IF first_calc = <<>> THEN <<r.result>> ELSE first_calc
    /\ UNCHANGED <<scenario, scenario_adj>>
    /\ UNCHANGED tax_vars

Sensitivity ==
    /\ \E variable \in SweepVariables, values \in SeqsFrom0(SweepValues, MaxValues) :
          \E r \in {sensitivity_analysis(<<params>>, 1, scenario, variable, values)} :
              /\ params' = r.heap[1]
              /\ ret' = [op |-> "sensitivity",
                         value |-> [variable |-> variable, values |-> values,
                                    table |-> r.table]]
    /\ UNCHANGED <<scenario, scenario_adj, adj_params, first_calc>>
    /\ UNCHANGED tax_vars

ScenarioAnalysis ==
    /\ \E scenarios \in SeqsFrom0(ListedScenarios, MaxScenarios) :
          \E r \in {scenario_analysis(<<params>>, 1, scenarios)} :
              /\ params' = r.heap[1]
              /\ ret' = [op |-> "scenario",
                         value |-> [scenarios |-> scenarios,
                                    scenario_results |-> r.scenario_results]]
    /\ UNCHANGED <<scenario, scenario_adj, adj_params, first_calc>>
    /\ UNCHANGED tax_vars

Next == Calculate \/ Sensitivity \/ ScenarioAnalysis

Spec == Init /\ [][Next]_vars

\* calculate_project_cashflow alone, over the wider set of inputs.
InitCalc ==
    /\ params \in ParamSets
    /\ scenario \in ScenarioNames
    /\ InRange(params, scenario)
    /\ scenario_adj = ScenarioAdj(scenario)
    /\ adj_params = <<>>
    /\ ret = NoRet
    /\ first_calc = <<>>
    /\ TaxIdle

NextCalc == Calculate

SpecCalc == InitCalc /\ [][NextCalc]_vars

-----------------------------------------------------------------------------
(* The first rows of the table for the default parameter set of config.py  *)
(* and sets next to it.  Every column before the tax pass is elementwise   *)
(* in years and the tax loop visits the years in increasing order, so rows *)
(* 1..n of df depend on the parameters and on n alone; the 25 rows of      *)
(* these sets are not all computed.                                        *)

MaxHead == 1

DefaultFinancialParams ==
    [total_investment |-> R(5000),
     project_period |-> 25,
     depreciation_period |-> 25,
     equity_ratio |-> Frac(30, 100),
     debt_rate |-> Frac(9, 100),
     discount_rate |-> Frac(15, 100),
     tax_rate |-> Frac(20, 100),
     initial_revenue |-> R(1000),
     revenue_growth |-> Frac(3, 100),
     op_cost_ratio |-> Frac(35, 100),
     inflation |-> Frac(3, 100)]

HeadParamSets ==
    {[DefaultFinancialParams EXCEPT !.equity_ratio = er,
                                    !.debt_rate = dr,
                                    !.tax_rate = tr,
                                    !.op_cost_ratio = ocr] :
        er \in {Frac(30, 100), Frac(95, 100), One},
        dr \in {Frac(9, 100), Frac(25, 100)},
        tr \in {Zero, Frac(20, 100)},
        ocr \in {Frac(35, 100), Frac(80, 100)}}

\* cashflow_df.iloc[:n] of calculate_project_cashflow.
CashflowHead(p, n) ==
    LET WithTax(pre, t) ==
            AsSeq([y \in 1..n |->
                      RowAfterTax(pre[y], t.taxable_income[y], t.tax[y])])
        WithRows(pre) ==
            WithTax(pre,
                    calculate_tax_with_loss_carryforward(
                        AsSeq([y \in 1..n |-> pre[y].EBT]), p.tax_rate))
    IN  WithRows(AsSeq([y \in 1..n |-> RowBeforeTax(p, y)]))

InitHead ==
    /\ params \in HeadParamSets
    /\ scenario \in ScenarioNames
    /\ scenario_adj = ScenarioAdj(scenario)
    /\ adj_params = <<>>
    /\ ret = NoRet
    /\ first_calc = <<>>
    /\ TaxIdle

CalculateHead ==
    /\ \E n \in 1..MaxHead :
          \E a \in {apply_scenario_adjustments(<<params>>, 1, scenario_adj)} :
              /\ params' = a.heap[1]
              /\ adj_params' = <<a.heap[a.ref]>>
              /\ ret' = [op |-> "head",
                         value |-> [cashflow_df |-> CashflowHead(a.heap[a.ref], n)]]
    /\ UNCHANGED <<scenario, scenario_adj, first_calc>>
    /\ UNCHANGED tax_vars

NextHead == CalculateHead

SpecHead == InitHead /\ [][NextHead]_vars

-----------------------------------------------------------------------------
(* ppp_app.py: run_investment_grade_model, the presentation layer's own    *)
(* model, next to the engine.  Its inputs carry the ratios in percent.     *)

Hundred == R(100)

\* The inputs dict of ppp_app.py for the parameter set p.
PercentInputs(p) ==
    [p EXCEPT !.equity_ratio = RMul(@, Hundred),
              !.debt_rate = RMul(@, Hundred),
              !.discount_rate = RMul(@, Hundred),
              !.tax_rate = RMul(@, Hundred),
              !.revenue_growth = RMul(@, Hundred),
              !.op_cost_ratio = RMul(@, Hundred),
              !.inflation = RMul(@, Hundred)]

\* The locals of lines 13-23.
AltLocals(inputs, adj) ==
    [total_investment |-> RMul(inputs.total_investment, RAdd(One, adj.capex_adj)),
     initial_revenue |-> RMul(inputs.initial_revenue, RAdd(One, adj.revenue_adj)),
     op_cost_ratio |-> RMul(RDiv(inputs.op_cost_ratio, Hundred),
                            RAdd(One, adj.opex_adj)),
     debt_rate |-> RDiv(RMul(inputs.debt_rate, RAdd(One, adj.debt_rate_adj)),
                        Hundred),
     project_period |-> inputs.project_period,
     equity_ratio |-> RDiv(inputs.equity_ratio, Hundred),
     revenue_growth |-> RDiv(inputs.revenue_growth, Hundred),
     inflation |-> RDiv(inputs.inflation, Hundred),
     tax_rate |-> RDiv(inputs.tax_rate, Hundred),
     discount_rate |-> RDiv(inputs.discount_rate, Hundred),
     depreciation_period |-> inputs.depreciation_period]

AltDebtBalanceStartAsEngine(debt, project_period, y) ==
    RMax(Zero, RSub(debt, RMul(RDiv(debt, R(project_period)), R(y - 1))))
AltDebtBalanceStart(debt, project_period, y) ==
    RMax(Zero, RSub(debt, RDiv(RMul(debt, R(project_period - y + 1)),
                               R(project_period))))

\* Lines 30-43: the columns before the tax loop, by row.
AltRowBeforeTax(l, y) ==
    LET revenue == Revenue(l, y)
        opcost == OpCost(l, revenue, y)
        ebitda == EBITDA(revenue, opcost)
        depreciation == Depreciation(l, y)
        ebit == EBIT(ebitda, depreciation)
        balance == AltDebtBalanceStart(debt_investment(l), l.project_period, y)
        interest == Interest_Payment(l, balance)
        principal == Principal_Repayment(l, balance)
    IN  [Revenue |-> revenue,
         OpCost |-> opcost,
         EBITDA |-> ebitda,
         Depreciation |-> depreciation,
         EBIT |-> ebit,
         Debt_Balance_Start |-> balance,
         Interest_Payment |-> interest,
         Principal_Repayment |-> principal,
         Debt_Service |-> Debt_Service(principal, interest),
         EBT |-> EBT(ebit, interest)]

\* The table of run_investment_grade_model; its three KPIs are not kept.
run_investment_grade_model(inputs, adj) ==
    LET WithTax(l, pre, t) ==
            AsSeq([y \in Years(l) |->
                      RowAfterTax(pre[y], t.taxable_income[y], t.tax[y])])
        WithRows(l, pre) ==
            WithTax(l, pre,
                    calculate_tax_with_loss_carryforward(
                        AsSeq([y \in Years(l) |-> pre[y].EBT]), l.tax_rate))
        WithLocals(l) == WithRows(l, AsSeq([y \in Years(l) |-> AltRowBeforeTax(l, y)]))
    IN  [cashflow_df |-> WithLocals(AltLocals(inputs, adj))]

\* The alternate model called on the engine's parameter set and scenario.
RunInvestmentGradeModel ==
    /\ ret' = [op |-> "alt",
               value |-> run_investment_grade_model(PercentInputs(params),
                                                    scenario_adj)]
    /\ UNCHANGED <<params, scenario, scenario_adj, adj_params, first_calc>>
    /\ UNCHANGED tax_vars

NextAlt == Calculate \/ RunInvestmentGradeModel

SpecAlt == InitCalc /\ [][NextAlt]_vars

-----------------------------------------------------------------------------
(* The tax pass run on its own, one loop iteration per step, over EBT      *)
(* columns drawn from a bounded set.                                       *)

MaxYears == 3
EBTValues == {R(-2), R(-1), R(0), R(1), R(2)}
TaxRates == {Zero, Frac(1, 5), One}

SeqsUpTo(S, n) == UNION {[1..k -> S] : k \in 1..n}

EngineIdle ==
    /\ params = None
    /\ scenario = None
    /\ scenario_adj = None
    /\ adj_params = None
    /\ ret = None
    /\ first_calc = None

InitTax ==
    /\ ebt \in SeqsUpTo(EBTValues, MaxYears)
    /\ tax_rate \in TaxRates
    /\ i = 0
    /\ cumulative_loss = Zero
    /\ taxable_income = Zeros(Len(ebt))
    /\ tax = Zeros(Len(ebt))
    /\ loss_used = <<>>
    /\ EngineIdle

TaxStep ==
    /\ i < Len(ebt)
    /\ LET y == i + 1
           loss_to_use == LossToUse(cumulative_loss, ebt[y])
           taxable == Taxable(ebt[y], loss_to_use)
       IN  /\ taxable_income' = [taxable_income EXCEPT ![y] = taxable]
           /\ tax' = [tax EXCEPT ![y] = TaxOf(taxable, tax_rate)]
           /\ cumulative_loss' = CumulativeLossNext(cumulative_loss, ebt[y], loss_to_use)
           /\ loss_used' = Append(loss_used, loss_to_use)
    /\ i' = i + 1
    /\ UNCHANGED <<ebt, tax_rate>>
    /\ UNCHANGED engine_vars

NextTax == TaxStep

SpecTax == InitTax /\ [][NextTax]_vars

-----------------------------------------------------------------------------
(* Claims about the tax pass.                                              *)

SumNegEBT(e, k) == RSum([y \in 1..k |-> IF RLt(e[y], Zero) THEN RAbs(e[y]) ELSE Zero])
SumUsedNonNeg(e, used, k) == RSum([y \in 1..k |-> IF RLt(e[y], Zero) THEN Zero ELSE used[y]])

\* C1: a loss accumulated in an earlier year reduces the taxable income of a
\* later profitable year: if some year x < y has EBT(x) < 0 and EBT(y) > 0,
\* then Taxable_Income(y) < EBT(y).
C1_LossReducesLaterTaxable ==
    \A y \in 1..i :
        (RLt(Zero, ebt[y]) /\ \E x \in 1..(y - 1) : RLt(ebt[x], Zero))
            => RLt(taxable_income[y], ebt[y])

\* C4: cumulative_loss is >= 0 after every year, and after the last year it
\* is the sum of |EBT| over the years with EBT < 0 minus the sum of
\* loss_to_use over the years with EBT >= 0.
C4_CumulativeLoss ==
    /\ RLe(Zero, cumulative_loss)
    /\ i = Len(ebt) =>
          cumulative_loss = RSub(SumNegEBT(ebt, i), SumUsedNonNeg(ebt, loss_used, i))

C4_Witness ==
    /\ i = Len(ebt)
    /\ i >= 3
    /\ RLt(ebt[1], Zero)
    /\ RLt(Zero, ebt[2])
    /\ RLt(ebt[3], Zero)
    /\ cumulative_loss = RAdd(RAbs(ebt[1]), RAbs(ebt[3]))

\* C5: Taxable_Income(y) >= 0 and Tax(y) >= 0 in every year, and Tax(y) = 0
\* in every year with EBT(y) < 0, whatever loss was accumulated before.
C5_TaxNonNegative ==
    \A y \in 1..i :
        /\ RLe(Zero, taxable_income[y])
        /\ RLe(Zero, tax[y])
        /\ RLt(ebt[y], Zero) => tax[y] = Zero

C5_Witness ==
    /\ i >= 2
    /\ RLt(ebt[1], Zero)
    /\ RLt(ebt[2], Zero)
    /\ RLt(RAbs(ebt[2]), RAbs(ebt[1]))
    /\ tax_rate # Zero
    /\ tax[2] = Zero

-----------------------------------------------------------------------------
(* Claims about the cashflow table and the KPI summary.                    *)

Returned(op) == ret.op = op
Table == ret.value.cashflow_df
LastYear == Len(Table)

\* C2 as stated: Debt_Balance_Start is 0 in every year y >= project_period,
\* that is, in the last row of the table.
C2_BalanceZeroInLastYear ==
    Returned("calculate") => Table[LastYear].Debt_Balance_Start = Zero

\* C2 as amended: in the last year the starting balance is one installment,
\* equal to that year's Principal_Repayment, and so positive whenever
\* debt_investment > 0; it is 0 only when debt_investment = 0.
C2_LastYearOneInstallment ==
    Returned("calculate") =>
        LET last == Table[LastYear]
            debt == debt_investment(adj_params[1])
        IN  /\ last.Debt_Balance_Start = last.Principal_Repayment
            /\ last.Debt_Balance_Start = RDiv(debt, R(LastYear))
            /\ RLt(Zero, debt) <=> RLt(Zero, last.Debt_Balance_Start)

C2_Witness ==
    /\ Returned("calculate")
    /\ LastYear >= 2
    /\ RLt(Zero, Table[LastYear].Debt_Balance_Start)
    /\ RLt(Table[LastYear].Debt_Balance_Start, Table[1].Debt_Balance_Start)

\* C3: Debt_Balance_Start is >= 0 in every year and does not increase from
\* one year to the next.
C3_BalanceNonIncreasing ==
    Returned("calculate") =>
        /\ \A y \in 1..LastYear : RLe(Zero, Table[y].Debt_Balance_Start)
        /\ \A y \in 1..(LastYear - 1) :
              RLe(Table[y + 1].Debt_Balance_Start, Table[y].Debt_Balance_Start)

C3_Witness ==
    /\ Returned("calculate")
    /\ LastYear >= 3
    /\ RLt(Table[2].Debt_Balance_Start, Table[1].Debt_Balance_Start)
    /\ RLt(Table[3].Debt_Balance_Start, Table[2].Debt_Balance_Start)

C6_WitnessFinite ==
    /\ Returned("calculate")
    /\ Table[1].Debt_Service # Zero
    /\ Table[1].DSCR # Inf
    /\ Table[1].Interest_Payment # Zero

\* C8: under "Base Case", or a scenario name that is not in the registry,
\* the adjusted parameter set equals the input in every field; under a
\* registered scenario only total_investment, initial_revenue,
\* op_cost_ratio and debt_rate change, each scaled by (1 + its delta).
C8_ScenarioAdjuster ==
    Returned("calculate") =>
        LET adj == adj_params[1]
        IN  /\ (scenario = "Base Case" \/ scenario \notin DOMAIN SCENARIO_ADJUSTMENTS)
                  => adj = params
            /\ scenario \in DOMAIN SCENARIO_ADJUSTMENTS =>
                  LET delta == SCENARIO_ADJUSTMENTS[scenario]
                  IN  adj = [params EXCEPT
                               !.total_investment = RMul(@, RAdd(One, delta.capex_adj)),
                               !.initial_revenue = RMul(@, RAdd(One, delta.revenue_adj)),
                               !.op_cost_ratio = RMul(@, RAdd(One, delta.opex_adj)),
                               !.debt_rate = RMul(@, RAdd(One, delta.debt_rate_adj))]

C8_Witness ==
    /\ Returned("calculate")
    /\ scenario \notin DOMAIN SCENARIO_ADJUSTMENTS
    /\ adj_params[1] = params
    /\ params.debt_rate # Zero

C8_WitnessRegistered ==
    /\ Returned("calculate")
    /\ scenario = "Downside"
    /\ adj_params[1].debt_rate # params.debt_rate
    /\ adj_params[1].discount_rate = params.discount_rate

\* C10: payback_period is the smallest year y at which
\* CFAds(1) + ... + CFAds(y) >= 0, and is null exactly when there is no
\* such year in the table.
RunningCFAds(y) == RSum([k \in 1..y |-> Table[k].CFAds])
PaidBackBy(y) == RLe(Zero, RunningCFAds(y))

C10_Payback ==
    Returned("calculate") =>
        LET payback == ret.value.summary_kpis.payback_period
        IN  /\ (payback = NoneR) <=> (\A y \in 1..LastYear : ~PaidBackBy(y))
            /\ \A y \in 1..LastYear :
                  (PaidBackBy(y) /\ \A x \in 1..(y - 1) : ~PaidBackBy(x))
                      => payback = R(y)

C10_Witness ==
    /\ Returned("calculate")
    /\ ret.value.summary_kpis.payback_period = R(2)
    /\ ~PaidBackBy(1)

C10_WitnessNull ==
    /\ Returned("calculate")
    /\ LastYear >= 2
    /\ ret.value.summary_kpis.payback_period = NoneR

\* C11: when no year of the table has a finite DSCR, min_dscr is null and
\* avg_dscr and debt_coverage are 0; when equity_investment is 0,
\* profitability_index is 0; otherwise min_dscr is the least and avg_dscr
\* (and debt_coverage) the mean of the DSCR of exactly the years in which
\* DSCR is finite.
FiniteDscrYears == {y \in 1..LastYear : Table[y].DSCR # Inf}
SumFiniteDscr ==
    RSum([y \in 1..LastYear |->
            IF y \in FiniteDscrYears THEN Table[y].DSCR ELSE Zero])

C11_DegenerateFallbacks ==
    Returned("calculate") =>
        LET kpis == ret.value.summary_kpis
            adj == adj_params[1]
        IN  /\ kpis.debt_coverage = kpis.avg_dscr
            /\ FiniteDscrYears = {} =>
                  /\ kpis.min_dscr = NoneR
                  /\ kpis.avg_dscr = Zero
            /\ RMul(adj.total_investment, adj.equity_ratio) = Zero =>
                  kpis.profitability_index = Zero
            /\ FiniteDscrYears # {} =>
                  /\ \E y \in FiniteDscrYears : kpis.min_dscr = Table[y].DSCR
                  /\ \A y \in FiniteDscrYears : RLe(kpis.min_dscr, Table[y].DSCR)
                  /\ RMul(kpis.avg_dscr, R(Cardinality(FiniteDscrYears)))
                        = SumFiniteDscr

C11_Witness ==
    /\ Returned("calculate")
    /\ LastYear >= 2
    /\ adj_params[1].equity_ratio = One
    /\ FiniteDscrYears = {}
    /\ ret.value.summary_kpis.min_dscr = NoneR
    /\ ret.value.summary_kpis.profitability_index # Zero

C11_WitnessNoEquity ==
    /\ Returned("calculate")
    /\ adj_params[1].equity_ratio = Zero
    /\ ret.value.summary_kpis.profitability_index = Zero
    /\ Cardinality(FiniteDscrYears) >= 2
    /\ RLt(ret.value.summary_kpis.min_dscr, ret.value.summary_kpis.avg_dscr)

\* C14: the Principal_Repayment column sums over the years of the table to
\* debt_investment = total_investment * (1 - equity_ratio): with
\* debt_investment > 0 every year starts with a positive balance and
\* repays debt_investment / project_period, with debt_investment = 0 every
\* year repays 0; the repayments made up to any year never exceed
\* debt_investment and reach it only with the payment of the last year.
RepaidBy(y) == RSum([k \in 1..y |-> Table[k].Principal_Repayment])

C14_WitnessNoDebt ==
    /\ Returned("calculate")
    /\ LastYear >= 2
    /\ adj_params[1].equity_ratio = One
    /\ RepaidBy(LastYear) = Zero

-----------------------------------------------------------------------------
(* Claims about the first rows for the default parameter set.              *)

\* C12: for the default parameter set under "Base Case" the year-1 row is
\* Revenue 1000, OpCost 350, EBITDA 650, Depreciation 200, EBIT 450,
\* Debt_Balance_Start 3500, Interest_Payment 315, Principal_Repayment 140,
\* Debt_Service 455, EBT 135, Taxable_Income 135, Tax 27, CFAds 623 and
\* DSCR 623/455.
C12_DefaultYearOne ==
    (Returned("head") /\ params = DefaultFinancialParams /\ scenario = "Base Case")
        => Table[1] = [Revenue |-> R(1000),
                       OpCost |-> R(350),
                       EBITDA |-> R(650),
                       Depreciation |-> R(200),
                       EBIT |-> R(450),
                       Debt_Balance_Start |-> R(3500),
                       Interest_Payment |-> R(315),
                       Principal_Repayment |-> R(140),
                       Debt_Service |-> R(455),
                       EBT |-> R(135),
                       Taxable_Income |-> R(135),
                       Tax |-> R(27),
                       CFAds |-> R(623),
                       DSCR |-> Frac(623, 455)]

C12_Witness ==
    /\ Returned("head")
    /\ params = DefaultFinancialParams
    /\ scenario = "Base Case"
    /\ adj_params = <<DefaultFinancialParams>>
    /\ Table[1].Interest_Payment = R(315)
    /\ RLt(One, Table[1].DSCR)

-----------------------------------------------------------------------------
(* Claims about the engine's table next to the alternate model's.          *)

EngineTable == first_calc[1].cashflow_df
BothTables == first_calc # <<>> /\ Returned("alt")
Debt == debt_investment(adj_params[1])
BalanceIncreases(df) ==
    \E y \in 1..(Len(df) - 1) :
        RLt(df[y].Debt_Balance_Start, df[y + 1].Debt_Balance_Start)

\* Both schedules as the claim describes them: the engine's starts at
\* debt_investment and falls by debt_investment / project_period per year,
\* the alternate model's is debt_investment * (y - 1) / project_period.
SchedulesAsDescribed ==
    LET n == Len(Table)
    IN  /\ Len(EngineTable) = n
        /\ EngineTable[1].Debt_Balance_Start = Debt
        /\ \A y \in 1..(n - 1) :
              RSub(EngineTable[y].Debt_Balance_Start,
                   EngineTable[y + 1].Debt_Balance_Start) = RDiv(Debt, R(n))
        /\ Table[1].Debt_Balance_Start = Zero
        /\ \A y \in 1..n :
              Table[y].Debt_Balance_Start = RDiv(RMul(Debt, R(y - 1)), R(n))
        /\ \E y \in 1..n :
              EngineTable[y].Debt_Balance_Start # Table[y].Debt_Balance_Start

\* C13 as stated: with debt_investment > 0 the two schedules are as
\* described, they differ, and the alternate model's balance increases
\* somewhere (it breaks the non-increasing-balance invariant).
C13_AlternateAlwaysIncreases ==
    (BothTables /\ RLt(Zero, Debt)) =>
        /\ SchedulesAsDescribed
        /\ BalanceIncreases(Table)

\* C13, amended: with debt_investment > 0 the two schedules are as
\* described and differ in some year, and the alternate model's balance
\* increases from one year to the next exactly when project_period >= 2;
\* with a single year its only balance is 0.
C13_SchedulesDiffer ==
    (BothTables /\ RLt(Zero, Debt)) =>
        /\ SchedulesAsDescribed
        /\ BalanceIncreases(Table) <=> Len(Table) >= 2

C13_Witness ==
    /\ BothTables
    /\ RLt(Zero, Debt)
    /\ Len(Table) >= 3
    /\ scenario = "Downside"
    /\ Table[1].Debt_Balance_Start = Zero
    /\ RLt(Table[2].Debt_Balance_Start, Table[3].Debt_Balance_Start)
    /\ RLt(EngineTable[3].Debt_Balance_Start, EngineTable[2].Debt_Balance_Start)

C13_WitnessOneYear ==
    /\ BothTables
    /\ RLt(Zero, Debt)
    /\ Len(Table) = 1
    /\ EngineTable[1].Debt_Balance_Start # Table[1].Debt_Balance_Start

-----------------------------------------------------------------------------
(* Claims about sequences of calls on one engine.                          *)

Standalone(p, s) == calculate_project_cashflow(<<p>>, 1, ScenarioAdj(s)).result

\* C7: sensitivity_analysis returns one row per value, in the order of the
\* values; row k carries values[k] under the swept variable's name and
\* otherwise the KPI summary of a standalone calculation on the base
\* parameters with that one field replaced by values[k], same scenario.
C7_SensitivityRows ==
    Returned("sensitivity") =>
        LET variable == ret.value.variable
            values == ret.value.values
            table == ret.value.table
        IN  /\ Len(table) = Len(values)
            /\ \A k \in 1..Len(values) :
                  LET kpis == Standalone([params EXCEPT ![variable] = values[k]],
                                         scenario).summary_kpis
                  IN  /\ table[k][variable] = values[k]
                      /\ DOMAIN table[k] = DOMAIN kpis \cup {variable}
                      /\ \A f \in DOMAIN kpis : table[k][f] = kpis[f]

C7_Witness ==
    /\ Returned("sensitivity")
    /\ scenario = "Downside"
    /\ Len(ret.value.values) = 2
    /\ ret.value.values[1] # ret.value.values[2]
    /\ ret.value.table[1].project_npv # ret.value.table[2].project_npv

\* C9: no call changes the engine's parameter set or its scenario, and
\* every calculate_project_cashflow after the first returns what the first
\* one returned, whatever calls came in between.
C9_Frame ==
    [][/\ params' = params
       /\ scenario' = scenario
       /\ (first_calc # <<>> /\ ret'.op = "calculate") => ret'.value = first_calc[1]]_vars

C9_Witness ==
    /\ first_calc # <<>>
    /\ scenario = "Downside"
    /\ Returned("scenario")
    /\ Len(ret.value.scenarios) = 2

====
